---- MODULE Spec2Model ----
(***************************************************************************)
(* Model of execution/contexts/call_context.go: the CallContext that       *)
(* applies one CallTx to the account state (Execute = Precheck, then Check *)
(* or Deliver).  The account store, the permission predicates, the receipt *)
(* accumulator and the virtual machine live outside this file; they are    *)
(* modelled by their documented interface.                                 *)
(***************************************************************************)
EXTENDS Integers, Sequences, FiniteSets, TLC

\* ------------------------------------------------------------------ bounds
\* Width of the unsigned balance type in the model (uint64 in the code).
BalanceBits == 4
\* Largest amount / fee a transaction of the model carries.
MaxAmount == 3
\* Largest gas limit a transaction of the model carries.
MaxGas == 2
\* Largest sequence number an account of the initial store carries.
MaxSequence == 1

Modulus == 2 ^ BalanceBits

\* const GasLimit = uint64(1000000)
GasLimit == 1000000

\* ------------------------------------------------------------- addresses
\* An ordinary account that signs transactions.
UserAddress == 1
\* A possible call target (absent, codeless or a contract).
TargetAddress == 2
\* An address at which a native contract is registered.
NativeAddress == 3
\* crypto.AddressFromHexString("1F1D5E1BE37653A107437A496E62AB6C974606BD")
erc20Address == 4
\* An address no account is ever stored at.
UnknownAddress == 5
\* tx.Address == nil: the transaction requests the creation of a contract.
NilAddress == 0

\* crypto.NewContractAddress(caller, sequence): a hash of both, modelled as
\* an injection into addresses no other account uses.
NewContractAddress(caller, sequence) == 100 + 10 * caller + sequence

\* hex.DecodeString("678135FF00..01"): the call data of the second VM call.
erc20Data == "678135FF0000000000000000000000000000000000000000000000000000000000000001"

\* ------------------------------------------------------------- data model
NilAccount == [nil |-> TRUE]
NoResult == [nil |-> TRUE]
NoTx == [nil |-> TRUE]
NoException == "nil"

\* acm.Account
Account(address, balance, sequence, code, perm) ==
    [Address |-> address, Balance |-> balance, Sequence |-> sequence,
     Code |-> code, Perm |-> perm]

\* uint64 arithmetic of the balances
Sub(a, b) == (a - b + Modulus) % Modulus
Add(a, b) == (a + b) % Modulus

VARIABLES
    store,        \* ctx.StateWriter: address -> account, for the stored accounts
    RunCall,      \* ctx.RunCall
    tx,           \* ctx.tx
    txe,          \* ctx.txe, the receipt
    pc,           \* position of the execution
    inAcc,        \* the in-memory input account
    outAcc,       \* the in-memory output account
    value,        \* Execute's value
    gas,          \* Deliver's gas
    callee,       \* Deliver's callee
    code,         \* Deliver's code
    ret,          \* Deliver's ret
    exception,    \* Deliver's exception (of the first VM call)
    txCache,      \* Deliver's overlay: address -> account, for the written accounts
    err,          \* the error Execute returned
    store0,       \* the store when Execute was called
    tx0,          \* the transaction when Execute was called
    vmCalls,      \* the invocations of the virtual machine made by this Execute
    writes        \* the writes to the store made by this Execute

vars == <<store, RunCall, tx, txe, pc, inAcc, outAcc, value, gas, callee, code,
          ret, exception, txCache, err, store0, tx0, vmCalls, writes>>

locals == <<inAcc, outAcc, value, gas, callee, code, ret, exception, txCache>>

\* ------------------------------------------------------- the account store
\* Reads of the store always answer; a write may be refused, which leaves the
\* store as it was and is returned by the context as a storage error.
\* StateWriter.GetAccount: a copy of the stored account, nil when absent.
GetAccount(st, address) ==
    IF address \in DOMAIN st THEN st[address] ELSE NilAccount

\* StateWriter.UpdateAccount: the stored account is replaced.
UpdateAccount(st, acc) ==
    [a \in DOMAIN st \cup {acc.Address} |->
        IF a = acc.Address THEN acc ELSE st[a]]

\* hasCreateContractPermission / hasCallPermission: the capability result.
hasCreateContractPermission(acc) == "create" \in acc.Perm
hasCallPermission(acc) == "call" \in acc.Perm

\* evm.IsRegisteredNativeContract
IsRegisteredNativeContract(address) == address = NativeAddress

\* ------------------------------------------------------------- the receipt
NewTxExecution == [Exceptions |-> <<>>, Events |-> <<>>, Result |-> NoResult]

\* txe.PushError
PushError(t, e) == [t EXCEPT !.Exceptions = Append(@, e)]

\* txe.Input
Input(t, address, e) ==
    [t EXCEPT !.Events = Append(@, [Address |-> address, Exception |-> e])]

\* txe.Return
Return(t, r, gasUsed) ==
    [t EXCEPT !.Result = [Return |-> r, GasUsed |-> gasUsed]]

\* Mutation of CallEvents: the event of the output address is left out.
CallEventsInputOnly(t, trans, e) == Input(t, trans.Input.Address, e)

\* CallContext.CallEvents
CallEvents(t, trans, e) ==
    LET t1 == Input(t, trans.Input.Address, e)
    IN  IF trans.Address # NilAddress THEN Input(t1, trans.Address, e) ELSE t1

\* -------------------------------------------------------------- the overlay
\* Reads go to the overlay first, then to the store below it.
CacheGet(cache, st, address) ==
    IF address \in DOMAIN cache THEN cache[address] ELSE GetAccount(st, address)

CachePut(cache, acc) ==
    [a \in DOMAIN cache \cup {acc.Address} |->
        IF a = acc.Address THEN acc ELSE cache[a]]

\* txCache.IncSequence
IncSequence(cache, st, address) ==
    LET acc == CacheGet(cache, st, address)
    IN  CachePut(cache, [acc EXCEPT !.Sequence = @ + 1])

\* txCache.GetSequence
GetSequence(cache, st, address) == CacheGet(cache, st, address).Sequence

\* txCache.CreateAccount
CreateAccount(cache, address) ==
    CachePut(cache, Account(address, 0, 0, "", {}))

\* txCache.GetCode: empty for an account that does not exist
GetCode(cache, st, address) ==
    LET acc == CacheGet(cache, st, address)
    IN  IF acc = NilAccount THEN "" ELSE acc.Code

\* txCache.InitCode
InitCode(cache, st, address, c) ==
    CachePut(cache, [CacheGet(cache, st, address) EXCEPT !.Code = c])

\* txCache.Sync: every written account goes to the store
Sync(cache, st) ==
    [a \in DOMAIN st \cup DOMAIN cache |->
        IF a \in DOMAIN cache THEN cache[a] ELSE st[a]]

EmptyCache == [a \in {} |-> NilAccount]

\* ------------------------------------------------------ the virtual machine
\* The value transfer a VM call makes in the overlay.
Transfer(cache, st, from, to, amount) ==
    LET f == CacheGet(cache, st, from)
        c1 == CachePut(cache, [f EXCEPT !.Balance = Sub(@, amount)])
        t == CacheGet(c1, st, to)
    IN  CachePut(c1, [t EXCEPT !.Balance = Add(@, amount)])

\* The amounts of gas a VM call given g may use: none, one unit, or all.
GasUses(g) == {u \in {0, 1, g} : u <= g}

\* The outcomes a VM call can have: with no code only the value is
\* transferred; a caller that cannot pay the value makes the call fail; code
\* uses some of the gas, returns some output and may raise an exception.
VMOutcomes(cache, st, caller, c, val, g) ==
    IF CacheGet(cache, st, caller).Balance < val
    THEN {[exception |-> "InsufficientBalance", used |-> 0, output |-> ""]}
    ELSE IF c = ""
    THEN {[exception |-> NoException, used |-> 0, output |-> ""]}
    ELSE [exception : {NoException, "ExecutionReverted"},
          used : GasUses(g), output : {"", "out"}]

\* The overlay after a VM call with outcome o: the value is with the callee
\* after a call that raised no exception, and nothing changed otherwise.
VMCallState(cache, st, caller, to, val, o) ==
    IF o.exception = NoException
    THEN Transfer(cache, st, caller, to, val)
    ELSE cache

\* ------------------------------------------------------------ initial state
Balances == {0, 1, 2 * MaxAmount}
Perms == SUBSET {"call", "create"}

UserAccounts ==
    {Account(UserAddress, b, s, "", p) :
        b \in Balances, s \in {0, MaxSequence}, p \in Perms}
TargetAccounts == {Account(TargetAddress, 0, 0, c, {}) : c \in {"", "code"}}
Erc20Accounts == {Account(erc20Address, 0, 0, "erc20", {})}

\* The stores of the model: the user's account, and maybe a target and the
\* contract at erc20Address.
Stores ==
    {[a \in {u.Address} \cup {t.Address : t \in ts} \cup {e.Address : e \in es} |->
        IF a = u.Address THEN u
        ELSE IF a = TargetAddress THEN CHOOSE t \in ts : TRUE
        ELSE CHOOSE e \in es : TRUE] :
        u \in UserAccounts,
        ts \in {{}} \cup {{t} : t \in TargetAccounts},
        es \in {{}} \cup {{e} : e \in Erc20Accounts}}

\* The CallTx payloads of the model.
Txs ==
    [Input : [Address : {UserAddress, UnknownAddress}, Amount : 0..MaxAmount],
     Address : {NilAddress, TargetAddress, NativeAddress},
     Data : {"data"},
     Fee : 0..MaxAmount,
     GasLimit : {0, MaxGas, GasLimit + 1}]

Init ==
    /\ store \in Stores
    /\ RunCall \in BOOLEAN
    /\ tx = NoTx
    /\ txe = NewTxExecution
    /\ pc = "idle"
    /\ inAcc = NilAccount
    /\ outAcc = NilAccount
    /\ value = 0
    /\ gas = 0
    /\ callee = NilAddress
    /\ code = ""
    /\ ret = ""
    /\ exception = NoException
    /\ txCache = EmptyCache
    /\ err = "nil"
    /\ store0 = store
    /\ tx0 = NoTx
    /\ vmCalls = <<>>
    /\ writes = <<>>

\* ------------------------------------------------------------------ Execute
\* Execute, up to the call of Precheck: the payload must be a CallTx.
Submit ==
    /\ pc = "idle"
    /\ \/ \E p \in Txs :
            /\ tx' = p
            /\ tx0' = p
            /\ pc' = "precheck"
            /\ err' = err
       \/ /\ tx' = tx
          /\ tx0' = tx0
          /\ pc' = "done"
          /\ err' = "PayloadType"
    /\ txe' = NewTxExecution
    /\ store0' = store
    /\ UNCHANGED <<store, RunCall, locals, vmCalls, writes>>

\* CallContext.Precheck as a function of the store and the transaction;
\* writeOk is whether the store accepts the update.  The result is the
\* accounts and error returned, and the store left behind.
PrecheckFailed(st, e) ==
    [inAcc |-> NilAccount, outAcc |-> NilAccount, err |-> e, store |-> st,
     wrote |-> FALSE]

\* Mutation of MissingInput: an empty account is stored for the unknown
\* input address.
MissingInputCreated(st, trans) ==
    PrecheckFailed(UpdateAccount(st, Account(trans.Input.Address, 0, 0, "", {})),
                   "InvalidAddress")

\* if inAcc == nil: the input account is not in the store.
MissingInput(st, trans) == PrecheckFailed(st, "InvalidAddress")

\* Mutation of FeeExceedsAmount: the fee is compared with the balance.
FeeExceedsBalance(acc, trans) == acc.Balance < trans.Fee

\* if ctx.tx.Input.Amount < ctx.tx.Fee
FeeExceedsAmount(acc, trans) == trans.Input.Amount < trans.Fee

\* Mutation of PrecheckAbort: the fee-deducted account is stored before the
\* check that fails.
PrecheckAbortPersisted(st, acc, e) == PrecheckFailed(UpdateAccount(st, acc), e)

\* A return of Precheck after the fee was taken from the in-memory account
\* acc and before UpdateAccount: nothing of acc reaches the store.
PrecheckAbort(st, acc, e) == PrecheckFailed(st, e)

Precheck(st, trans, writeOk) ==
    LET fetched == GetAccount(st, trans.Input.Address)
        createContract == trans.Address = NilAddress
    IN  IF fetched = NilAccount
        THEN MissingInput(st, trans)
        ELSE IF FeeExceedsAmount(fetched, trans)
        THEN PrecheckFailed(st, "InsufficientFunds")
        ELSE LET acc == [fetched EXCEPT !.Balance = Sub(@, trans.Fee)]
             IN  IF createContract /\ ~hasCreateContractPermission(acc)
                 THEN PrecheckAbort(st, acc, "PermissionDenied(CreateContract)")
                 ELSE IF ~createContract /\ ~hasCallPermission(acc)
                 THEN PrecheckAbort(st, acc, "PermissionDenied(Call)")
                 ELSE IF ~createContract /\ IsRegisteredNativeContract(trans.Address)
                 THEN PrecheckAbort(st, acc, "ReservedAddress")
                 ELSE IF ~writeOk
                 THEN PrecheckFailed(st, "StorageError")
                 ELSE [inAcc |-> acc,
                       outAcc |-> IF createContract THEN NilAccount
                                  ELSE GetAccount(st, trans.Address),
                       err |-> "nil",
                       store |-> UpdateAccount(st, acc),
                       wrote |-> TRUE]

\* Execute from the call of Precheck to the dispatch on RunCall.
ExecutePrecheck ==
    /\ pc = "precheck"
    /\ \E writeOk \in BOOLEAN :
        LET r == Precheck(store, tx, writeOk)
        IN  /\ store' = r.store
            /\ writes' = IF r.wrote THEN Append(writes, "UpdateAccount") ELSE writes
            /\ IF r.err # "nil"
               THEN /\ err' = r.err
                    /\ pc' = "done"
                    /\ UNCHANGED <<inAcc, outAcc, value>>
               ELSE /\ inAcc' = r.inAcc
                    /\ outAcc' = r.outAcc
                    /\ value' = Sub(tx.Input.Amount, tx.Fee)
                    /\ pc' = IF RunCall THEN "deliver" ELSE "check"
                    /\ err' = err
    /\ UNCHANGED <<RunCall, tx, txe, gas, callee, code, ret, exception, txCache,
                   store0, tx0, vmCalls>>

\* Mutation of Check: the sequence number of a creation is not incremented.
CheckWithoutSequence(st, trans, acc, val, writeOk) ==
    LET acc1 == [acc EXCEPT !.Balance = Sub(@, val)]
    IN  IF writeOk
        THEN [inAcc |-> acc1, err |-> "nil", store |-> UpdateAccount(st, acc1),
              wrote |-> TRUE]
        ELSE [inAcc |-> acc1, err |-> "StorageError", store |-> st, wrote |-> FALSE]

\* CallContext.Check as a function: the account it persists and its error.
Check(st, trans, acc, val, writeOk) ==
    LET createContract == trans.Address = NilAddress
        acc1 == [acc EXCEPT !.Balance = Sub(@, val)]
        acc2 == IF createContract THEN [acc1 EXCEPT !.Sequence = @ + 1] ELSE acc1
    IN  IF writeOk
        THEN [inAcc |-> acc2, err |-> "nil", store |-> UpdateAccount(st, acc2),
              wrote |-> TRUE]
        ELSE [inAcc |-> acc2, err |-> "StorageError", store |-> st, wrote |-> FALSE]

ExecuteCheck ==
    /\ pc = "check"
    /\ \E writeOk \in BOOLEAN :
        LET r == Check(store, tx, inAcc, value, writeOk)
        IN  /\ store' = r.store
            /\ inAcc' = r.inAcc
            /\ err' = r.err
            /\ writes' = IF r.wrote THEN Append(writes, "UpdateAccount") ELSE writes
    /\ pc' = "done"
    /\ UNCHANGED <<RunCall, tx, txe, outAcc, value, gas, callee, code, ret,
                   exception, txCache, store0, tx0, vmCalls>>

\* ------------------------------------------------------------------ Deliver
\* Deliver up to the VM call: the VM call variables, and the callee that is
\* created or fetched.  Calling an account that does not exist or holds no
\* code ends the delivery here.
DeliverPrepare ==
    /\ pc = "deliver"
    /\ LET createContract == tx.Address = NilAddress
           caller == inAcc.Address
           cache1 == IncSequence(EmptyCache, store, caller)
           created == NewContractAddress(caller, GetSequence(cache1, store, caller))
       IN  IF createContract
           THEN /\ callee' = created
                /\ code' = tx.Data
                /\ txCache' = CreateAccount(cache1, created)
                /\ pc' = "call"
                /\ UNCHANGED <<txe, err>>
           ELSE IF outAcc = NilAccount \/ Len(outAcc.Code) = 0
           THEN /\ txe' = CallEvents(PushError(txe, "InvalidAddress"), tx,
                                     "InvalidAddress")
                /\ err' = "nil"
                /\ pc' = "done"
                /\ txCache' = EmptyCache
                /\ UNCHANGED <<callee, code>>
           ELSE /\ callee' = outAcc.Address
                /\ code' = GetCode(EmptyCache, store, outAcc.Address)
                /\ txCache' = EmptyCache
                /\ pc' = "call"
                /\ UNCHANGED <<txe, err>>
    /\ gas' = tx.GasLimit
    /\ UNCHANGED <<store, RunCall, tx, inAcc, outAcc, value, ret, exception,
                   store0, tx0, vmCalls, writes>>

\* What is recorded of a VM invocation.
VMCallRecord(caller, to, c, input, val, g, o, after) ==
    [caller |-> caller, callee |-> to, code |-> c, input |-> input,
     value |-> val, gas |-> g, gasLeft |-> g - o.used, gasCeiling |-> GasLimit,
     exception |-> o.exception, output |-> o.output, overlay |-> after]

\* vmach.Call(txCache, ctx.txe, caller, callee, code, ctx.tx.Data, value, &gas)
DeliverCall ==
    /\ pc = "call"
    /\ \E o \in VMOutcomes(txCache, store, inAcc.Address, code, value, gas) :
        /\ ret' = o.output
        /\ exception' = o.exception
        /\ gas' = gas - o.used
        /\ txCache' = VMCallState(txCache, store, inAcc.Address, callee, value, o)
        /\ vmCalls' = Append(vmCalls,
               VMCallRecord(inAcc.Address, callee, code, tx.Data, value, gas, o,
                   VMCallState(txCache, store, inAcc.Address, callee, value, o)))
    /\ pc' = "call2"
    /\ UNCHANGED <<store, RunCall, tx, txe, inAcc, outAcc, value, callee, code,
                   err, store0, tx0, writes>>

\* The second VM call: the code stored at erc20Address, run with the call
\* data written into the transaction, on the same overlay, value and gas.
\* Its output and exception are dropped.
DeliverCall2 ==
    /\ pc = "call2"
    /\ LET codeERC20 == GetCode(txCache, store, erc20Address)
       IN  \E o \in VMOutcomes(txCache, store, inAcc.Address, codeERC20, value, gas) :
            /\ gas' = gas - o.used
            /\ txCache' = VMCallState(txCache, store, inAcc.Address, callee, value, o)
            /\ vmCalls' = Append(vmCalls,
                   VMCallRecord(inAcc.Address, callee, codeERC20, erc20Data,
                       value, gas, o,
                       VMCallState(txCache, store, inAcc.Address, callee, value, o)))
    /\ tx' = [tx EXCEPT !.Data = erc20Data]
    /\ pc' = "finish"
    /\ UNCHANGED <<store, RunCall, txe, inAcc, outAcc, value, callee, code, ret,
                   exception, err, store0, tx0, writes>>

\* Mutation of OnException: the exception is returned as Deliver's error.
OnExceptionReturned(st, cache, t, trans, exc, r, g) ==
    [store |-> st, txCache |-> cache, txe |-> t, err |-> exc, wrote |-> FALSE]

\* Mutation of OnException: the overlay is committed all the same.
OnExceptionCommitted(st, cache, t, trans, exc, r, g) ==
    [store |-> Sync(cache, st), txCache |-> cache,
     txe |-> Return(CallEvents(PushError(t, exc), trans, exc), r,
                    trans.GasLimit - g),
     err |-> "nil", wrote |-> TRUE]

\* The exception branch: the exception is pushed on the receipt, the
\* overlay is left alone, and Deliver goes on to the events and the result.
OnException(st, cache, t, trans, exc, r, g) ==
    [store |-> st, txCache |-> cache,
     txe |-> Return(CallEvents(PushError(t, exc), trans, exc), r,
                    trans.GasLimit - g),
     err |-> "nil", wrote |-> FALSE]

\* Mutation of OnSuccess: the created contract is committed without its code.
OnSuccessWithoutInitCode(st, cache, t, trans, to, r, g, writeOk) ==
    IF writeOk
    THEN [store |-> Sync(cache, st), txCache |-> cache,
          txe |-> Return(CallEvents(t, trans, NoException), r,
                         trans.GasLimit - g),
          err |-> "nil", wrote |-> TRUE]
    ELSE [store |-> st, txCache |-> cache, txe |-> t,
          err |-> "StorageError", wrote |-> FALSE]

\* The success branch: the created contract gets its code, the overlay is
\* committed, and Deliver goes on to the events and the result; an error of
\* the commit is returned at once.
OnSuccess(st, cache, t, trans, to, r, g, writeOk) ==
    LET createContract == trans.Address = NilAddress
        cache1 == IF createContract THEN InitCode(cache, st, to, r) ELSE cache
    IN  IF writeOk
        THEN [store |-> Sync(cache1, st), txCache |-> cache1,
              txe |-> Return(CallEvents(t, trans, NoException), r,
                             trans.GasLimit - g),
              err |-> "nil", wrote |-> TRUE]
        ELSE [store |-> st, txCache |-> cache1, txe |-> t,
              err |-> "StorageError", wrote |-> FALSE]

\* Deliver after the VM calls: the exception goes to the receipt, or the
\* overlay is committed; then the events and the result are recorded.
DeliverFinish ==
    /\ pc = "finish"
    /\ \E writeOk \in BOOLEAN :
        LET r == IF exception # NoException
                 THEN OnException(store, txCache, txe, tx, exception, ret, gas)
                 ELSE OnSuccess(store, txCache, txe, tx, callee, ret, gas, writeOk)
        IN  /\ store' = r.store
            /\ txCache' = r.txCache
            /\ txe' = r.txe
            /\ err' = r.err
            /\ writes' = IF r.wrote THEN Append(writes, "Sync") ELSE writes
    /\ pc' = "done"
    /\ UNCHANGED <<RunCall, tx, inAcc, outAcc, value, gas, callee, code, ret,
                   exception, store0, tx0, vmCalls>>

Next ==
    \/ Submit
    \/ ExecutePrecheck
    \/ ExecuteCheck
    \/ DeliverPrepare
    \/ DeliverCall
    \/ DeliverCall2
    \/ DeliverFinish

Spec == Init /\ [][Next]_vars

\* ------------------------------------------------------------------- claims
Submitted == tx0 # NoTx
Done == pc = "done"
InputAddress == tx0.Input.Address
InputExists == InputAddress \in DOMAIN store0
CreatesContract == tx0.Address = NilAddress

\* Every account has the balance it had when Execute was called.
BalancesUnchanged ==
    /\ DOMAIN store = DOMAIN store0
    /\ \A a \in DOMAIN store0 : store[a].Balance = store0[a].Balance

\* C1: a transaction with fee > amount whose input account exists makes
\* Execute fail with InsufficientFunds, in either run mode, and no account's
\* balance differs from the one it had before the call.
C1_FeeAboveAmountRejected ==
    (Submitted /\ InputExists /\ tx0.Fee > tx0.Input.Amount)
        => /\ BalancesUnchanged
           /\ Done => err = "InsufficientFunds"

C1_Witness ==
    /\ Submitted /\ InputExists /\ tx0.Fee > tx0.Input.Amount
    /\ store0[InputAddress].Balance >= tx0.Fee
    /\ Done /\ RunCall /\ err = "InsufficientFunds"

\* C2: a transaction whose input address has no account makes Execute fail
\* with InvalidAddress; the store is unchanged, the virtual machine is not
\* invoked, and the receipt gets no error and no event.
C2_UnknownInputRejected ==
    (Submitted /\ ~InputExists)
        => /\ store = store0
           /\ vmCalls = <<>>
           /\ txe.Exceptions = <<>>
           /\ txe.Events = <<>>
           /\ Done => err = "InvalidAddress"

C2_Witness ==
    Submitted /\ ~InputExists /\ Done /\ err = "InvalidAddress"

\* The Precheck failures that come after the in-memory fee deduction.
LacksCreateContract ==
    CreatesContract /\ "create" \notin store0[InputAddress].Perm
LacksCall ==
    ~CreatesContract /\ "call" \notin store0[InputAddress].Perm
CallsNative ==
    /\ ~CreatesContract /\ "call" \in store0[InputAddress].Perm
    /\ IsRegisteredNativeContract(tx0.Address)

\* C3: when Precheck fails for a missing CreateContract capability, a missing
\* Call capability or a native call target, that error is what Execute
\* returns, and the stored balance of the input account is not reduced by
\* the fee.
C3_LateFailureChargesNothing ==
    (Submitted /\ InputExists /\ tx0.Fee <= tx0.Input.Amount /\ Done)
        => /\ LacksCreateContract => err = "PermissionDenied(CreateContract)"
           /\ LacksCall => err = "PermissionDenied(Call)"
           /\ CallsNative => err = "ReservedAddress"
           /\ (LacksCreateContract \/ LacksCall \/ CallsNative)
                => store[InputAddress].Balance = store0[InputAddress].Balance

C3_Witness ==
    /\ Submitted /\ InputExists /\ Done /\ CallsNative
    /\ tx0.Fee > 0 /\ tx0.Fee <= tx0.Input.Amount
    /\ store0[InputAddress].Balance >= tx0.Fee
    /\ err = "ReservedAddress"

\* Precheck returned the input account: the fee-deducted account was stored.
PrecheckPassed == inAcc # NilAccount
Delivered == Submitted /\ RunCall /\ Done /\ PrecheckPassed
TargetExists == tx0.Address \in DOMAIN store0
TargetHasCode == TargetExists /\ store0[tx0.Address].Code # ""

\* Every account but the input account is as it was when Execute was called.
OthersUnchanged ==
    /\ DOMAIN store = DOMAIN store0
    /\ \A a \in DOMAIN store0 \ {InputAddress} : store[a] = store0[a]

\* C4: in Deliver mode a call that passes Precheck and whose target is absent
\* or holds no code lowers the stored balance of the input account by
\* exactly the fee, changes no other account, never invokes the virtual
\* machine, pushes exactly one InvalidAddress exception, emits the events of
\* the input address and of the target with that exception, and returns no
\* error.
C4_CodelessTargetChargesFeeOnly ==
    (Delivered /\ ~CreatesContract /\ ~TargetHasCode)
        => /\ store[InputAddress].Balance = store0[InputAddress].Balance - tx0.Fee
           /\ OthersUnchanged
           /\ vmCalls = <<>>
           /\ txe.Exceptions = <<"InvalidAddress">>
           /\ txe.Events = <<[Address |-> InputAddress, Exception |-> "InvalidAddress"],
                             [Address |-> tx0.Address, Exception |-> "InvalidAddress"]>>
           /\ err = "nil"

\* The first VM call of this Execute was made and raised no exception.
CallSucceeded == Len(vmCalls) > 0 /\ vmCalls[1].exception = NoException
CallRaised == Len(vmCalls) > 0 /\ vmCalls[1].exception # NoException

\* C5: in Deliver mode a call to an account with code that the virtual
\* machine runs without exception leaves the caller with its prior balance
\* minus the amount, and the callee with its prior balance plus amount - fee.
C5_SuccessfulCallMovesValueOnce ==
    (/\ Delivered /\ ~CreatesContract /\ TargetHasCode /\ CallSucceeded
     /\ err = "nil" /\ store0[InputAddress].Balance >= tx0.Input.Amount)
        => /\ store[InputAddress].Balance
                = store0[InputAddress].Balance - tx0.Input.Amount
           /\ store[tx0.Address].Balance
                = store0[tx0.Address].Balance + (tx0.Input.Amount - tx0.Fee)

\* C6: once Deliver has reached the VM call, the gas used that the receipt
\* records is the gas limit minus the gas left by the VM call made for the
\* transaction's callee, code and payload, and is at most the gas limit.
C6_GasUsedIsOfTheCall ==
    (Delivered /\ Len(vmCalls) > 0 /\ txe.Result # NoResult)
        => /\ txe.Result.GasUsed = tx0.GasLimit - vmCalls[1].gasLeft
           /\ txe.Result.GasUsed <= tx0.GasLimit

\* The callee of the VM call is as it was when Execute was called.
CalleeUnchanged ==
    LET to == vmCalls[1].callee
    IN  IF to \in DOMAIN store0
        THEN to \in DOMAIN store /\ store[to].Balance = store0[to].Balance
        ELSE to \notin DOMAIN store

\* C7: in Deliver mode, when the VM call of the transaction raises an
\* exception the overlay is never committed: the caller's stored balance is
\* its prior balance minus the fee, and the callee's is its prior balance.
C7_ExceptionDiscardsOverlay ==
    (Delivered /\ CallRaised)
        => /\ store[InputAddress].Balance = store0[InputAddress].Balance - tx0.Fee
           /\ CalleeUnchanged
           /\ "Sync" \notin {writes[i] : i \in 1..Len(writes)}

\* The stored sequence number of the input account, before and after.
SequenceIncremented ==
    store[InputAddress].Sequence = store0[InputAddress].Sequence + 1
SequenceUnchanged ==
    store[InputAddress].Sequence = store0[InputAddress].Sequence

\* C8 as stated: in Check mode, for every transaction, the virtual machine is
\* never invoked, the receipt gets no event and no error, the stored
\* sequence number of the input account is incremented by exactly one when
\* the transaction creates a contract, and is unchanged for a call.
C8_CheckIncrementsSequenceOfEveryCreation ==
    (Submitted /\ ~RunCall)
        => /\ vmCalls = <<>>
           /\ txe.Events = <<>>
           /\ txe.Exceptions = <<>>
           /\ (Done /\ InputExists /\ CreatesContract) => SequenceIncremented
           /\ (Done /\ InputExists /\ ~CreatesContract) => SequenceUnchanged

\* C8 as amended: in Check mode, for every transaction, the virtual machine
\* is never invoked and the receipt gets no event and no error; the stored
\* sequence number of the input account is incremented by exactly one when
\* the transaction creates a contract and Execute returns no error, and is
\* unchanged for a call and whenever Execute returns an error.
C8_CheckIncrementsSequenceOfAcceptedCreation ==
    (Submitted /\ ~RunCall)
        => /\ vmCalls = <<>>
           /\ txe.Events = <<>>
           /\ txe.Exceptions = <<>>
           /\ (Done /\ InputExists /\ CreatesContract /\ err = "nil")
                => SequenceIncremented
           /\ (Done /\ InputExists /\ (~CreatesContract \/ err # "nil"))
                => SequenceUnchanged

C8_Witness ==
    /\ Submitted /\ ~RunCall /\ Done /\ CreatesContract /\ err = "nil"
    /\ store0[InputAddress].Sequence = MaxSequence
    /\ store[InputAddress].Sequence = MaxSequence + 1

\* C9: an exception of the VM call is never returned by Execute: Execute
\* returns no error, an exception with the code of the VM's exception is
\* appended to the receipt, and the return value and the gas used are
\* recorded on the receipt all the same.
C9_VMExceptionIsRecordedNotReturned ==
    (Delivered /\ CallRaised)
        => /\ err = "nil"
           /\ txe.Exceptions = <<vmCalls[1].exception>>
           /\ txe.Result # NoResult
           /\ txe.Result.Return = ret
           /\ txe.Result.GasUsed = tx0.GasLimit - gas

C9_Witness ==
    /\ Delivered /\ CallRaised /\ vmCalls[1].exception = "ExecutionReverted"
    /\ vmCalls[1].gasLeft < vmCalls[1].gas
    /\ txe.Result # NoResult /\ txe.Result.GasUsed > 0

\* C10: whichever terminal state a run reaches, the stored balance of the
\* input account is lower by at least the fee when Precheck succeeded, and
\* the store is the one of the submission when Precheck failed.
C10_FeeChargedExactlyWhenPrecheckPasses ==
    (Submitted /\ Done)
        => IF PrecheckPassed
           THEN store[InputAddress].Balance
                    <= store0[InputAddress].Balance - tx0.Fee
           ELSE store = store0

\* The store Precheck left behind: the fee-deducted input account stored.
StoreAfterPrecheck == UpdateAccount(store0, inAcc)

\* What a Deliver that makes only the first VM call leaves behind: the
\* branch taken on its exception, on the overlay and with the gas it left.
DeliverOnce ==
    LET first == vmCalls[1]
    IN  IF first.exception # NoException
        THEN OnException(StoreAfterPrecheck, first.overlay, NewTxExecution, tx0,
                         first.exception, first.output, first.gasLeft)
        ELSE OnSuccess(StoreAfterPrecheck, first.overlay, NewTxExecution, tx0,
                       first.callee, first.output, first.gasLeft, err = "nil")

\* C11: the second VM call of Deliver has no observable effect: for every
\* transaction and every pair of VM outcomes, the committed store and the
\* receipt (errors, events, return bytes, gas used) are those of a Deliver
\* that makes only the first call.
C11_SecondCallUnobservable ==
    (Delivered /\ Len(vmCalls) = 2)
        => /\ store = DeliverOnce.store
           /\ txe = DeliverOnce.txe

\* C12: the transaction is immutable during execution: its input address,
\* amount, callee address, payload data, fee and gas limit are after Execute
\* what they were when Execute was called, in either mode and on every path.
C12_TransactionImmutable ==
    (Submitted /\ Done) => tx = tx0

\* The address Deliver derives for the contract a creation makes.
DerivedAddress ==
    NewContractAddress(InputAddress, store0[InputAddress].Sequence + 1)

\* C13: in Deliver mode, for a creation whose VM call succeeds and whose
\* overlay is committed: the caller's stored sequence number is incremented
\* by exactly one, the callee is the address derived from the caller and its
\* incremented sequence number, the VM is given the payload as code, and the
\* store holds an account at the callee whose code is the output of that call.
C13_CreationStoresReturnedCode ==
    (Delivered /\ CreatesContract /\ CallSucceeded /\ err = "nil")
        => /\ SequenceIncremented
           /\ vmCalls[1].callee = DerivedAddress
           /\ vmCalls[1].code = tx0.Data
           /\ DerivedAddress \in DOMAIN store
           /\ store[DerivedAddress].Code = vmCalls[1].output

C13_Witness ==
    /\ Delivered /\ CreatesContract /\ CallSucceeded /\ err = "nil"
    /\ DerivedAddress \notin DOMAIN store0
    /\ DerivedAddress \in DOMAIN store
    /\ store[DerivedAddress].Code = "out"
    /\ store[InputAddress].Sequence = MaxSequence + 1

\* The exception the events of this Execute carry: the one of the VM call,
\* or the InvalidAddress of a target that cannot be called.
EventException ==
    IF vmCalls = <<>> THEN "InvalidAddress" ELSE vmCalls[1].exception

\* The events Deliver owes: the input address, then the output address if
\* the transaction has one.
TouchedEvents ==
    <<[Address |-> InputAddress, Exception |-> EventException]>>
        \o (IF CreatesContract THEN <<>>
            ELSE <<[Address |-> tx0.Address, Exception |-> EventException]>>)

\* C14: a Deliver that returns without a storage error has emitted the
\* touched-address events exactly once, the input address first and then the
\* output address if present, each with the exception of the transaction or
\* nil; and no such event is emitted before the VM outcome is known.
C14_TouchedEventsOnceAtTheEnd ==
    /\ (Delivered /\ err = "nil") => txe.Events = TouchedEvents
    /\ (Submitted /\ RunCall /\ ~Done) => txe.Events = <<>>

C14_Witness ==
    /\ Delivered /\ err = "nil" /\ ~CreatesContract /\ CallRaised
    /\ Len(txe.Events) = 2
    /\ txe.Events[2] = [Address |-> TargetAddress, Exception |-> "ExecutionReverted"]

\* C15: in Deliver mode, for a creation whose VM call raises an exception,
\* no write of the overlay shows in the store: no account is at the derived
\* callee address, and the caller's stored record differs from the one
\* before the execution by the fee deduction alone.
C15_FailedCreationLeavesNoTrace ==
    (Delivered /\ CreatesContract /\ CallRaised)
        => /\ DerivedAddress \notin DOMAIN store
           /\ store[InputAddress]
                = [store0[InputAddress] EXCEPT !.Balance = Sub(@, tx0.Fee)]
           /\ OthersUnchanged

C15_Witness ==
    /\ Delivered /\ CreatesContract /\ CallRaised
    /\ tx0.Fee > 0 /\ store0[InputAddress].Balance >= tx0.Fee
    /\ DerivedAddress \in DOMAIN txCache
    /\ txCache[InputAddress].Sequence = store0[InputAddress].Sequence + 1
    /\ DerivedAddress \notin DOMAIN store

\* C16: in Check mode, for a transaction that passes Precheck, the stored
\* balance of the input account after Execute is its prior balance minus the
\* amount, and no other account is modified.
C16_CheckChargesAmount ==
    (Submitted /\ ~RunCall /\ Done /\ PrecheckPassed /\ err = "nil")
        => /\ store[InputAddress].Balance
                = store0[InputAddress].Balance - tx0.Input.Amount
           /\ OthersUnchanged

\* C17: the node-wide gas ceiling bounds the gas of the virtual machine: for
\* every transaction, also one whose gas limit is above the ceiling, the gas
\* handed to a VM call, and so the gas used on the receipt, is at most the
\* ceiling.
C17_GasCeilingBoundsVMGas ==
    /\ \A i \in 1..Len(vmCalls) : vmCalls[i].gas <= vmCalls[i].gasCeiling
    /\ txe.Result # NoResult => txe.Result.GasUsed <= GasLimit

\* C18: balances never wrap: for every transaction and every balance of the
\* input account, also one below the fee or the amount, the stored balance
\* of the input account is never above its balance before the execution.
C18_BalanceNeverWraps ==
    (Submitted /\ InputExists)
        => store[InputAddress].Balance <= store0[InputAddress].Balance

\* The sequence number Check stores for the transaction Precheck passed.
CheckSequence ==
    Check(StoreAfterPrecheck, tx0, inAcc, value, TRUE).store[InputAddress].Sequence

\* C19 as stated: for a creation that passes Precheck, the caller's stored
\* sequence number after Deliver is the one after Check of the same
\* transaction on the same store, its prior value plus one, whatever the
\* outcome of the VM call.
C19_DeliverAgreesWithCheckOnSequence ==
    (Delivered /\ CreatesContract /\ Len(vmCalls) > 0 /\ err = "nil")
        => /\ store[InputAddress].Sequence = CheckSequence
           /\ SequenceIncremented

\* C19 as amended: the two agree, on the prior value plus one, when the VM
\* call raises no exception and the overlay is committed; when the VM call
\* raises an exception Deliver leaves the stored sequence number at its
\* prior value, one below the one Check stores.
C19_DeliverAgreesWithCheckOnSuccess ==
    (Delivered /\ CreatesContract /\ Len(vmCalls) > 0 /\ err = "nil")
        => /\ CheckSequence = store0[InputAddress].Sequence + 1
           /\ CallSucceeded => store[InputAddress].Sequence = CheckSequence
           /\ CallRaised => store[InputAddress].Sequence = CheckSequence - 1

C19_Witness ==
    /\ Delivered /\ CreatesContract /\ CallRaised /\ err = "nil"
    /\ store0[InputAddress].Sequence = MaxSequence
    /\ store[InputAddress].Sequence = MaxSequence
    /\ CheckSequence = MaxSequence + 1

\* C20: the order of the store writes and VM calls of one Execute: the
\* virtual machine is invoked only after Precheck has stored the
\* fee-deducted input account; a Deliver writes the store at most twice,
\* Precheck's update and then at most one commit of the overlay; and the
\* commit comes only after the VM call of the transaction returned without
\* exception.
C20_WritesAndCallsInOrder ==
    /\ Len(vmCalls) > 0
        => /\ PrecheckPassed
           /\ Len(writes) >= 1 /\ writes[1] = "UpdateAccount"
    /\ RunCall
        => writes \in {<<>>, <<"UpdateAccount">>, <<"UpdateAccount", "Sync">>}
    /\ (\E i \in 1..Len(writes) : writes[i] = "Sync")
        => Len(vmCalls) = 2 /\ CallSucceeded

C20_Witness ==
    /\ Delivered /\ Len(vmCalls) = 2 /\ CallSucceeded
    /\ writes = <<"UpdateAccount", "Sync">>
    /\ store # StoreAfterPrecheck

====
